---- MODULE Spec2Model ----
(***************************************************************************)
(* A model of the WESAD pre-processing pipeline of                         *)
(* src/src/BiometricEmotionModels.ipynb (load_and_downsample,              *)
(* create_windows, extract_panas_scores, load_wesad_dataset and the cells  *)
(* that split the windows by subject) and of the audio pipeline of         *)
(* src/src/AudioDescriptions.ipynb (process_audio mapped over the files by *)
(* a pool of two workers).                                                 *)
(*                                                                         *)
(* Python values are modelled as follows.                                  *)
(*   - a list or a 1-d array is a sequence; Python's 0-based index k is    *)
(*     position k + 1 of the sequence;                                     *)
(*   - a string that the code inspects (startswith, strip, isdigit, int)   *)
(*     is a sequence of one-character strings;                             *)
(*   - a call that may raise returns a record with a field raised.         *)
(***************************************************************************)
EXTENDS Integers, Sequences, FiniteSets, TLC

VARIABLES
    pc,               \* where the run is
    args,             \* the arguments of the call under way
    ret,              \* what the call returned
    todo,             \* load_wesad_dataset: the subject directories not yet visited
    all_x,            \* load_wesad_dataset: the four lists it accumulates
    all_y_cls,
    all_y_reg,
    all_subject_ids,
    globals,          \* the notebook's global variables
    pool              \* the audio notebook's multiprocessing.Pool

lists == <<all_x, all_y_cls, all_y_reg, all_subject_ids>>

vars == <<pc, args, ret, todo, lists, globals, pool>>

(***************************************************************************)
(* Bounds of the model.                                                    *)
(***************************************************************************)
\* longest label series handed to create_windows on its own
MaxN == 4
\* largest per-sample label; labels range over -1 .. MaxLabel
MaxLabel == 2
\* largest window length and stride (in rows) tried for create_windows
MaxW == 3
MaxS == 2
\* longest 700 Hz label array handed to load_and_downsample on its own
MaxRawLen == 360
\* most lines of a questionnaire file handed to extract_panas_scores on its own
MaxLines == 2

(***************************************************************************)
(* Program constants.                                                      *)
(***************************************************************************)
SAMPLING_RATE_ORIG == 700
SAMPLING_RATE_TARGET == 4
WINDOW_SIZE_SEC == 15
STRIDE_SEC == 5

NoRet == [raised |-> FALSE, none |-> TRUE]

\* the variables of load_wesad_dataset, of the notebook and of the pool, while a
\* function is run on its own
Idle ==
    /\ todo = <<>>
    /\ all_x = <<>>
    /\ all_y_cls = <<>>
    /\ all_y_reg = <<>>
    /\ all_subject_ids = <<>>
    /\ globals = NoRet
    /\ pool = NoRet

(***************************************************************************)
(* Python and numpy helpers.                                               *)
(***************************************************************************)
Min(a, b) == IF a <= b THEN a ELSE b

\* range(start, stop, step) for step > 0: start, start + step, ... while < stop
RECURSIVE py_range(_, _, _)
py_range(start, stop, step) ==
    IF start >= stop THEN <<>>
    ELSE <<start>> \o py_range(start + step, stop, step)

\* s[a:b] for 0 <= a: the elements at 0-based positions a .. min(b, len(s)) - 1
py_slice(s, a, b) == SubSeq(s, a + 1, Min(b, Len(s)))

\* np.any(win_y == 0)
np_any_eq(win_y, v) == \E k \in 1..Len(win_y) : win_y[k] = v

SeqMax(s) == CHOOSE m \in {s[k] : k \in 1..Len(s)} :
                 \A k \in 1..Len(s) : s[k] <= m

\* np.bincount(a) of a non-empty array of non-negative integers: the array c of
\* length max(a) + 1 with c[v] the number of occurrences of v
np_bincount(a) ==
    [v \in 0..SeqMax(a) |-> Cardinality({k \in 1..Len(a) : a[k] = v})]

\* np.bincount raises ValueError on a negative element
np_bincount_raises(a) == \E k \in 1..Len(a) : a[k] < 0

\* the mutant: the last index holding the maximum
np_argmax_last(c) ==
    CHOOSE v \in DOMAIN c :
        /\ \A u \in DOMAIN c : c[u] <= c[v]
        /\ \A u \in DOMAIN c : u > v => c[u] < c[v]

\* ndarray.argmax(): the first index holding the maximum
np_argmax(c) ==
    CHOOSE v \in DOMAIN c :
        /\ \A u \in DOMAIN c : c[u] <= c[v]
        /\ \A u \in DOMAIN c : u < v => c[u] < c[v]

(***************************************************************************)
(* create_windows(X, y, window_size, stride).  X is the sequence of the    *)
(* rows of the signal matrix, y the per-row labels.  The result is the     *)
(* pair (windows, labels), or raised when np.bincount rejects a window.    *)
(***************************************************************************)
\* for i in range(0, len(X) - window_size, stride)
create_windows_starts(X, window_size, stride) ==
    py_range(0, Len(X) - window_size, stride)

\* the mutant of the drop: only the first label of the window is looked at
create_windows_drop_first(win_y) == win_y # <<>> /\ win_y[1] = 0

\* if np.any(win_y == 0): continue
create_windows_drop(win_y) == np_any_eq(win_y, 0)

RECURSIVE create_windows_loop(_, _, _, _, _)
create_windows_loop(X, y, window_size, starts, acc) ==
    IF starts = <<>> THEN acc
    ELSE LET i == Head(starts)
             win_x == py_slice(X, i, i + window_size)
             win_y == py_slice(y, i, i + window_size)
         IN  IF create_windows_drop(win_y)
             THEN create_windows_loop(X, y, window_size, Tail(starts), acc)
             ELSE IF np_bincount_raises(win_y)
             THEN [acc EXCEPT !.raised = TRUE]
             ELSE create_windows_loop(X, y, window_size, Tail(starts),
                      [acc EXCEPT
                          !.windows = Append(@, win_x),
                          !.labels = Append(@, np_argmax(np_bincount(win_y)))])

create_windows(X, y, window_size, stride) ==
    create_windows_loop(X, y, window_size,
        create_windows_starts(X, window_size, stride),
        [raised |-> FALSE, windows |-> <<>>, labels |-> <<>>])

(***************************************************************************)
(* load_and_downsample(subject_path, signals, device).                     *)
(*                                                                         *)
(* The unpickled record is data.  A 2-d array is modelled by its shape and *)
(* the origin of its columns: [rows |-> n, cols |-> <<origin, ...>>].      *)
(* data.label is the 700 Hz label array: its length len, and resampled,    *)
(* the values that the FFT resampling followed by round() gives, as runs   *)
(* of equal values (the values are not computed here; only their number    *)
(* is).                                                                    *)
(***************************************************************************)
None == "None"

SIGNAL_MAP ==
    [EDA  |-> [chest |-> "EDA",  wrist |-> "EDA"],
     TEMP |-> [chest |-> "Temp", wrist |-> "TEMP"],
     RESP |-> [chest |-> "Resp", wrist |-> None],
     ECG  |-> [chest |-> "ECG",  wrist |-> None],
     ACC  |-> [chest |-> "ACC",  wrist |-> "ACC"],
     EMG  |-> [chest |-> "EMG",  wrist |-> None],
     BVP  |-> [chest |-> None,   wrist |-> "BVP"]]

Raised == [raised |-> TRUE]

\* the mutant: the nearest integer, round(len(label) * scale)
new_len_round(label_len) ==
    (2 * label_len * SAMPLING_RATE_TARGET + SAMPLING_RATE_ORIG)
        \div (2 * SAMPLING_RATE_ORIG)

\* scale = SAMPLING_RATE_TARGET / SAMPLING_RATE_ORIG; int(len(label) * scale).
\* int() truncates the double product, which is the exact floor of
\* len * 4 / 700 for every length below 10^7.
new_len(label_len) ==
    (label_len * SAMPLING_RATE_TARGET) \div SAMPLING_RATE_ORIG

\* the mutant: each source resampled by the ratio applied to its own length
scipy_resample_own_length(source, num) ==
    [source EXCEPT !.rows = new_len(source.rows)]

\* scipy.signal.resample(source, num, axis=0): num rows, the same columns
scipy_resample(source, num) == [source EXCEPT !.rows = num]

\* the value of row k (from 1) of a series given as runs <<[v, n], ...>>; the
\* last run extends to every later row
RECURSIVE RunValue(_, _)
RunValue(runs, k) ==
    IF runs = <<>> THEN 0
    ELSE IF k <= Head(runs).n \/ Len(runs) = 1 THEN Head(runs).v
    ELSE RunValue(Tail(runs), k - Head(runs).n)

\* resample(label.astype(float), num).round().astype(int): num values
scipy_resample_label(label, num) ==
    [k \in 1..num |-> RunValue(label.resampled, k)]

\* the mutant of np.concatenate(arrays, axis=1): an empty list gives an array
\* without rows or columns
np_concatenate_axis1_empty(arrays) ==
    IF arrays = <<>> THEN [raised |-> FALSE, rows |-> 0, cols |-> <<>>]
    ELSE IF \E k \in 1..Len(arrays) : arrays[k].rows # arrays[1].rows
    THEN Raised
    ELSE LET RECURSIVE cat(_)
             cat(k) == IF k > Len(arrays) THEN <<>>
                       ELSE arrays[k].cols \o cat(k + 1)
         IN  [raised |-> FALSE, rows |-> arrays[1].rows, cols |-> cat(1)]

\* np.concatenate(arrays, axis=1): ValueError for an empty list and for arrays
\* that differ in their number of rows
np_concatenate_axis1(arrays) ==
    IF arrays = <<>> THEN Raised
    ELSE IF \E k \in 1..Len(arrays) : arrays[k].rows # arrays[1].rows
    THEN Raised
    ELSE LET RECURSIVE cat(_)
             cat(k) == IF k > Len(arrays) THEN <<>>
                       ELSE arrays[k].cols \o cat(k + 1)
         IN  [raised |-> FALSE, rows |-> arrays[1].rows, cols |-> cat(1)]

\* the mutant of the parts of one requested signal: wrist before chest
load_and_downsample_parts_wrist_first(data, sig, device, num) ==
    LET sig_key == SIGNAL_MAP[sig]
        one(part) ==
            IF device \in {part, "both"} /\ sig_key[part] # None
            THEN <<scipy_resample(data.signal[part][sig_key[part]], num)>>
            ELSE <<>>
    IN  one("wrist") \o one("chest")

\* for part in ['chest', 'wrist']: the list parts of one requested signal
load_and_downsample_parts(data, sig, device, num) ==
    LET sig_key == SIGNAL_MAP[sig]
        one(part) ==
            IF device \in {part, "both"} /\ sig_key[part] # None
            THEN <<scipy_resample(data.signal[part][sig_key[part]], num)>>
            ELSE <<>>
    IN  one("chest") \o one("wrist")

\* for sig in signals: signal_list, or Raised when a concatenation raises
RECURSIVE load_and_downsample_signals(_, _, _, _, _)
load_and_downsample_signals(data, signals, device, num, signal_list) ==
    IF signals = <<>> THEN [raised |-> FALSE, signal_list |-> signal_list]
    ELSE LET parts == load_and_downsample_parts(data, Head(signals), device, num)
             joined == np_concatenate_axis1(parts)
         IN  IF parts = <<>>
             THEN load_and_downsample_signals(data, Tail(signals), device, num,
                                              signal_list)
             ELSE IF joined.raised THEN Raised
             ELSE load_and_downsample_signals(data, Tail(signals), device, num,
                      Append(signal_list, [rows |-> joined.rows,
                                           cols |-> joined.cols]))

load_and_downsample(data, signals, device) ==
    IF ~data.loadable THEN Raised
    ELSE LET num == new_len(data.label.len)
             listed == load_and_downsample_signals(data, signals, device, num,
                                                   <<>>)
             all_signals == np_concatenate_axis1(listed.signal_list)
         IN  IF listed.raised THEN Raised
             ELSE IF all_signals.raised THEN Raised
             ELSE [raised |-> FALSE,
                   all_signals |-> [rows |-> all_signals.rows,
                                    cols |-> all_signals.cols],
                   labels |-> scipy_resample_label(data.label, num)]

(***************************************************************************)
(* extract_panas_scores(quest_path).  The file is quest: whether open()    *)
(* succeeds, and the rows csv.reader yields for it, each a list of fields, *)
(* each field a string.  The character "SUP2" stands for a superscript     *)
(* two, a character str.isdigit() accepts and int() rejects.               *)
(***************************************************************************)
PANAS_ITEMS ==
    <<"Active", "Distressed", "Interested", "Inspired", "Annoyed", "Strong",
      "Guilty", "Scared", "Hostile", "Excited", "Proud", "Irritable",
      "Enthusiastic", "Ashamed", "Alert", "Nervous", "Determined",
      "Attentive", "Jittery", "Afraid", "Stressed", "Frustrated", "Happy",
      "Angry", "Irritated", "Sad">>

TARGET_PANAS ==
    <<"Stressed", "Angry", "Happy", "Sad", "Inspired", "Excited", "Nervous">>

\* '# PANAS'
PANAS_MARKER == <<"#", " ", "P", "A", "N", "A", "S">>

AsciiDigits == <<"0", "1", "2", "3", "4", "5", "6", "7", "8", "9">>

IsAsciiDigit(c) == \E d \in 1..Len(AsciiDigits) : AsciiDigits[d] = c

DigitValue(c) == (CHOOSE d \in 1..Len(AsciiDigits) : AsciiDigits[d] = c) - 1

Whitespace == {" "}

\* s.startswith(prefix)
py_startswith(s, prefix) ==
    Len(s) >= Len(prefix) /\ SubSeq(s, 1, Len(prefix)) = prefix

\* s.strip()
RECURSIVE py_strip(_)
py_strip(s) ==
    IF s = <<>> THEN s
    ELSE IF Head(s) \in Whitespace THEN py_strip(Tail(s))
    ELSE IF s[Len(s)] \in Whitespace THEN py_strip(SubSeq(s, 1, Len(s) - 1))
    ELSE s

\* s.isdigit(): not empty, and every character is a digit character
py_isdigit(s) ==
    s # <<>> /\ \A k \in 1..Len(s) : IsAsciiDigit(s[k]) \/ s[k] = "SUP2"

\* int(val) raises ValueError unless val, stripped, is a decimal literal (of
\* the strings that pass isdigit(): unless all its characters are 0..9)
py_int_raises(val) ==
    LET t == py_strip(val)
    IN  t = <<>> \/ \E k \in 1..Len(t) : ~IsAsciiDigit(t[k])

RECURSIVE DecimalValue(_, _)
DecimalValue(t, acc) ==
    IF t = <<>> THEN acc
    ELSE DecimalValue(Tail(t), 10 * acc + DigitValue(Head(t)))

\* int(val)
py_int(val) == DecimalValue(py_strip(val), 0)

\* the mutant of dict(zip(keys, values)): the keys paired with the last values
py_dict_zip_last(keys, values) ==
    LET n == Min(Len(keys), Len(values))
    IN  [name \in {keys[k] : k \in 1..n} |->
            values[Len(values) - n
                   + CHOOSE k \in 1..n :
                         keys[k] = name
                         /\ \A j \in 1..n : keys[j] = name => j <= k]]

\* dict(zip(keys, values)): pairs up to the shorter of the two
py_dict_zip(keys, values) ==
    LET n == Min(Len(keys), Len(values))
    IN  [name \in {keys[k] : k \in 1..n} |->
            values[CHOOSE k \in 1..n :
                       keys[k] = name
                       /\ \A j \in 1..n : keys[j] = name => j <= k]]

\* [r for r in reader if r and r[0].startswith('# PANAS')]
extract_panas_scores_rows(lines) ==
    SelectSeq(lines, LAMBDA r : r # <<>> /\ py_startswith(r[1], PANAS_MARKER))

\* row[1:] filtered by val.strip().isdigit()
extract_panas_scores_fields(row) ==
    SelectSeq(Tail(row), LAMBDA val : py_isdigit(py_strip(val)))

\* the mutant: a row is accepted whatever the number of its scores
extract_panas_scores_too_few_never(scores) == FALSE

\* if len(scores) < len(PANAS_ITEMS): continue
extract_panas_scores_too_few(scores) == Len(scores) < Len(PANAS_ITEMS)

\* for row in rows: try ... except Exception: continue
RECURSIVE extract_panas_scores_loop(_, _)
extract_panas_scores_loop(rows, condition_scores) ==
    IF rows = <<>> THEN condition_scores
    ELSE LET fields == extract_panas_scores_fields(Head(rows))
             scores == [k \in 1..Len(fields) |-> py_int(fields[k])]
         IN  IF \E k \in 1..Len(fields) : py_int_raises(fields[k])
             THEN extract_panas_scores_loop(Tail(rows), condition_scores)
             ELSE IF extract_panas_scores_too_few(scores)
             THEN extract_panas_scores_loop(Tail(rows), condition_scores)
             ELSE extract_panas_scores_loop(Tail(rows),
                      Append(condition_scores,
                             py_dict_zip(PANAS_ITEMS, scores)))

extract_panas_scores(quest) ==
    IF ~quest.readable THEN Raised
    ELSE [raised |-> FALSE,
          condition_scores |->
              extract_panas_scores_loop(
                  extract_panas_scores_rows(quest.lines), <<>>)]

(***************************************************************************)
(* load_wesad_dataset(root_path, selected_signals, device).                *)
(*                                                                         *)
(* root_path is the directory: a function from the names os.listdir gives  *)
(* to the files of each entry,                                             *)
(*   [pkl |-> [exists, data], quest |-> [exists, file]].                   *)
(* An ndarray built from a list is [ndim, items]; np.array of an empty     *)
(* list has one dimension.  A row of the signal matrix is modelled by its  *)
(* position, so a window is the sequence of the positions of its rows.     *)
(***************************************************************************)
\* the characters of the names, in code point order
CodePointOrder ==
    <<" ", "#", "0", "1", "2", "3", "4", "5", "6", "7", "8", "9",
      "A", "N", "P", "S", "e", "n", "o", "s", "t">>

CodePoint(c) == CHOOSE k \in 1..Len(CodePointOrder) : CodePointOrder[k] = c

\* a < b for strings
RECURSIVE py_str_less(_, _)
py_str_less(a, b) ==
    IF b = <<>> THEN FALSE
    ELSE IF a = <<>> THEN TRUE
    ELSE IF Head(a) # Head(b) THEN CodePoint(Head(a)) < CodePoint(Head(b))
    ELSE py_str_less(Tail(a), Tail(b))

RECURSIVE SetToSeq(_)
SetToSeq(S) ==
    IF S = {} THEN <<>>
    ELSE LET e == CHOOSE m \in S : TRUE IN <<e>> \o SetToSeq(S \ {e})

\* sorted(names)
py_sorted(names) == SortSeq(SetToSeq(names), py_str_less)

\* os.listdir(root_path)
os_listdir(root_path) == DOMAIN root_path

\* list[i] raises IndexError outside -len .. len - 1
py_index_raises(list, i) == i >= Len(list) \/ i < -Len(list)

\* the mutant of list[i]: the index counts from the end
py_index_from_end(list, i) == list[Len(list) - i]

\* list[i]; a negative i counts from the end
py_index(list, i) == IF i >= 0 THEN list[i + 1] ELSE list[Len(list) + i + 1]

\* np.array(items) of a list of arrays of ndim - 1 dimensions
np_array(items, ndim) ==
    [ndim |-> IF items = <<>> THEN 1 ELSE ndim, items |-> items]

\* np.concatenate(arrays): ValueError for an empty list and for arrays that
\* differ in their number of dimensions
np_concatenate(arrays) ==
    IF arrays = <<>> THEN Raised
    ELSE IF \E k \in 1..Len(arrays) : arrays[k].ndim # arrays[1].ndim
    THEN Raised
    ELSE LET RECURSIVE cat(_)
             cat(k) == IF k > Len(arrays) THEN <<>>
                       ELSE arrays[k].items \o cat(k + 1)
         IN  [raised |-> FALSE, items |-> cat(1)]

\* StandardScaler().fit_transform(data): an array of the same shape
normalize(data) == data

\* the rows of a 2-d array, each modelled by its position
MatrixRows(X) == [k \in 1..X.rows |-> k - 1]

\* the mutant: no fallback, the score set is looked up whatever the index
load_wesad_dataset_no_fallback(condition_idx, panas_per_condition) == FALSE

\* if condition_idx >= len(panas_per_condition)
load_wesad_dataset_fallback(condition_idx, panas_per_condition) ==
    condition_idx >= Len(panas_per_condition)

\* for label in win_y: the list y_reg, or Raised for an index or key error
RECURSIVE load_wesad_dataset_targets(_, _, _)
load_wesad_dataset_targets(win_y, panas_per_condition, y_reg) ==
    IF win_y = <<>> THEN [raised |-> FALSE, y_reg |-> y_reg]
    ELSE LET label == Head(win_y)
             condition_idx == label - 1
             scores == py_index(panas_per_condition, condition_idx)
         IN  IF load_wesad_dataset_fallback(condition_idx, panas_per_condition)
             THEN load_wesad_dataset_targets(Tail(win_y), panas_per_condition,
                      Append(y_reg, [k \in 1..Len(TARGET_PANAS) |-> 0]))
             ELSE IF py_index_raises(panas_per_condition, condition_idx)
             THEN Raised
             ELSE IF \E k \in 1..Len(TARGET_PANAS) :
                         TARGET_PANAS[k] \notin DOMAIN scores
             THEN Raised
             ELSE load_wesad_dataset_targets(Tail(win_y), panas_per_condition,
                      Append(y_reg, [k \in 1..Len(TARGET_PANAS) |->
                                        scores[TARGET_PANAS[k]]]))

\* the mutant: windows and labels are appended before the questionnaire is read
load_wesad_dataset_try_early(acc, subject_dir, files, selected_signals, device) ==
    LET loaded == load_and_downsample(files.pkl.data, selected_signals, device)
        X == normalize(loaded.all_signals)
        made == create_windows(MatrixRows(X), loaded.labels,
                               WINDOW_SIZE_SEC * SAMPLING_RATE_TARGET,
                               STRIDE_SEC * SAMPLING_RATE_TARGET)
        early == [acc EXCEPT
                     !.all_x = Append(@, np_array(made.windows, 3)),
                     !.all_y_cls = Append(@, np_array(made.labels, 1))]
        panas == extract_panas_scores(files.quest.file)
        targets == load_wesad_dataset_targets(made.labels,
                                              panas.condition_scores, <<>>)
    IN  IF loaded.raised THEN acc
        ELSE IF made.raised THEN acc
        ELSE IF panas.raised THEN early
        ELSE IF targets.raised THEN early
        ELSE [early EXCEPT
                 !.all_y_reg = Append(@, np_array(targets.y_reg, 2)),
                 !.all_subject_ids =
                     Append(@, np_array([k \in 1..Len(made.windows) |->
                                            subject_dir], 1))]

\* the body of try for one subject: acc holds the four lists before, the
\* result the four lists after; an exception leaves them as they are
load_wesad_dataset_try(acc, subject_dir, files, selected_signals, device) ==
    LET loaded == load_and_downsample(files.pkl.data, selected_signals, device)
        X == normalize(loaded.all_signals)
        made == create_windows(MatrixRows(X), loaded.labels,
                               WINDOW_SIZE_SEC * SAMPLING_RATE_TARGET,
                               STRIDE_SEC * SAMPLING_RATE_TARGET)
        panas == extract_panas_scores(files.quest.file)
        targets == load_wesad_dataset_targets(made.labels,
                                              panas.condition_scores, <<>>)
    IN  IF loaded.raised THEN acc
        ELSE IF made.raised THEN acc
        ELSE IF panas.raised THEN acc
        ELSE IF targets.raised THEN acc
        ELSE [all_x |-> Append(acc.all_x, np_array(made.windows, 3)),
              all_y_cls |-> Append(acc.all_y_cls, np_array(made.labels, 1)),
              all_y_reg |-> Append(acc.all_y_reg, np_array(targets.y_reg, 2)),
              all_subject_ids |->
                  Append(acc.all_subject_ids,
                         np_array([k \in 1..Len(made.windows) |-> subject_dir],
                                  1))]

\* the four np.concatenate calls of the return statement
load_wesad_dataset_return(acc) ==
    LET X == np_concatenate(acc.all_x)
        y_cls == np_concatenate(acc.all_y_cls)
        y_reg == np_concatenate(acc.all_y_reg)
        subject_ids == np_concatenate(acc.all_subject_ids)
    IN  IF X.raised \/ y_cls.raised \/ y_reg.raised \/ subject_ids.raised
        THEN Raised
        ELSE [raised |-> FALSE, X |-> X.items, y_cls |-> y_cls.items,
              y_reg |-> y_reg.items, subject_ids |-> subject_ids.items]

(***************************************************************************)
(* The specification of create_windows on its own: every label series of   *)
(* at most MaxN rows, every window length and stride.  Row t of the signal *)
(* matrix is modelled by its position t.                                   *)
(***************************************************************************)
Labels == (-1)..MaxLabel

SeqsUpTo(S, n) == UNION {[1..m -> S] : m \in 0..n}

Rows(n) == [k \in 1..n |-> k - 1]

WindowInputs ==
    {[X |-> Rows(Len(y)), y |-> y, window_size |-> W, stride |-> S] :
        y \in SeqsUpTo(Labels, MaxN), W \in 1..MaxW, S \in 1..MaxS}

InitWindows ==
    /\ pc = "call"
    /\ args \in WindowInputs
    /\ ret = NoRet
    /\ Idle

CallCreateWindows ==
    /\ pc = "call"
    /\ pc' = "done"
    /\ ret' = create_windows(args.X, args.y, args.window_size, args.stride)
    /\ UNCHANGED <<args, todo, lists, globals, pool>>

NextWindows == CallCreateWindows

SpecWindows == InitWindows /\ [][NextWindows]_vars

(***************************************************************************)
(* The specification of load_and_downsample on its own: recordings of      *)
(* SAMPLING_RATE_ORIG / SAMPLING_RATE_TARGET .. MaxRawLen labelled samples *)
(* (at least one row at the target rate), whose chest channels have one    *)
(* sample per label and whose wrist channels have wrist_rows samples.      *)
(***************************************************************************)
ChestKeys == {"EDA", "Temp", "Resp", "ECG", "ACC", "EMG"}
WristKeys == {"EDA", "TEMP", "ACC", "BVP"}

Recording(label_len, wrist_rows, runs) ==
    [loadable |-> TRUE,
     label |-> [len |-> label_len, resampled |-> runs],
     signal |->
        [chest |-> [k \in ChestKeys |->
                       [rows |-> label_len, cols |-> <<<<"chest", k>>>>]],
         wrist |-> [k \in WristKeys |->
                       [rows |-> wrist_rows, cols |-> <<<<"wrist", k>>>>]]]]

\* a record that pickle.load rejects
Unloadable == [loadable |-> FALSE]

Devices == {"chest", "wrist", "both"}

SignalRequests ==
    {<<"EDA", "TEMP", "RESP", "ECG", "ACC">>, <<"BVP">>, <<"ECG">>,
     <<"BVP", "EDA">>, <<"EMG", "BVP">>}

RawLens == (SAMPLING_RATE_ORIG \div SAMPLING_RATE_TARGET)..MaxRawLen

\* wrist channels at 4 Hz, at 64 Hz and at the chest rate
WristLens(label_len) ==
    {(label_len * 4) \div SAMPLING_RATE_ORIG,
     (label_len * 64) \div SAMPLING_RATE_ORIG,
     label_len}

DownsampleInputs ==
    UNION {{[data |-> Recording(L, w, <<[v |-> 1, n |-> 1]>>),
             signals |-> sigs, device |-> dev] :
               w \in WristLens(L), sigs \in SignalRequests, dev \in Devices} :
           L \in RawLens}
      \cup {[data |-> Unloadable, signals |-> sigs, device |-> dev] :
               sigs \in SignalRequests, dev \in Devices}

InitDownsample ==
    /\ pc = "call"
    /\ args \in DownsampleInputs
    /\ ret = NoRet
    /\ Idle

CallLoadAndDownsample ==
    /\ pc = "call"
    /\ pc' = "done"
    /\ ret' = load_and_downsample(args.data, args.signals, args.device)
    /\ UNCHANGED <<args, todo, lists, globals, pool>>

NextDownsample == CallLoadAndDownsample

SpecDownsample == InitDownsample /\ [][NextDownsample]_vars

(***************************************************************************)
(* The specification of extract_panas_scores on its own: files of at most  *)
(* MaxLines lines.  A line is a first field followed by one fewer, as many *)
(* or one more numbers than PANAS_ITEMS has items, possibly with one       *)
(* other field before or after them.                                       *)
(***************************************************************************)
\* n score fields, the k-th being the digit 1 + (k + shift) mod 5
ScoreFields(n, shift) ==
    [k \in 1..n |-> <<AsciiDigits[2 + ((k + shift) % 5)]>>]

FirstFields ==
    {PANAS_MARKER, PANAS_MARKER \o <<" ", "1">>, <<"#", " ", "S", "S", "S", "Q">>,
     <<"#", "P", "A", "N", "A", "S">>, <<>>}

OtherFields ==
    {<<>>, <<"x">>, <<"SUP2">>, <<" ", "3", " ">>, <<"1", "0">>}

QuestLines ==
    {<<>>}
    \cup {<<first>> \o ScoreFields(Len(PANAS_ITEMS), 0) : first \in FirstFields}
    \cup {<<PANAS_MARKER>> \o ScoreFields(n, 1) :
             n \in (Len(PANAS_ITEMS) - 1)..(Len(PANAS_ITEMS) + 1)}
    \cup {<<PANAS_MARKER>> \o <<other>> \o ScoreFields(n, 2) :
             n \in (Len(PANAS_ITEMS) - 1)..Len(PANAS_ITEMS),
             other \in OtherFields}
    \cup {<<PANAS_MARKER>> \o ScoreFields(n, 3) \o <<other>> :
             n \in (Len(PANAS_ITEMS) - 1)..Len(PANAS_ITEMS),
             other \in OtherFields}

PanasInputs ==
    {[quest |-> [readable |-> TRUE, lines |-> lines]] :
        lines \in SeqsUpTo(QuestLines, MaxLines)}
    \cup {[quest |-> [readable |-> FALSE]]}

InitPanas ==
    /\ pc = "call"
    /\ args \in PanasInputs
    /\ ret = NoRet
    /\ Idle

CallExtractPanasScores ==
    /\ pc = "call"
    /\ pc' = "done"
    /\ ret' = extract_panas_scores(args.quest)
    /\ UNCHANGED <<args, todo, lists, globals, pool>>

NextPanas == CallExtractPanasScores

SpecPanas == InitPanas /\ [][NextPanas]_vars

(***************************************************************************)
(* The specification of the notebook's run: load_wesad_dataset over a      *)
(* directory of at most two subject directories and one other entry, then  *)
(* the cell that rescales the regression targets.                          *)
(*                                                                         *)
(* A recording is given by the runs of its resampled labels; it holds 175  *)
(* samples for each of those rows and 100 more.                            *)
(***************************************************************************)
SubjectNames == {<<"S", "2">>, <<"S", "1", "0">>}

OtherNames == {<<"n", "o", "t", "e", "s">>}

Run(v, n) == [v |-> v, n |-> n]

RECURSIVE RunsLen(_)
RunsLen(runs) == IF runs = <<>> THEN 0 ELSE Head(runs).n + RunsLen(Tail(runs))

\* one label throughout; a label high enough to have no score set; a change of
\* label; a change that leaves a window tied; a stretch of the sentinel; a
\* recording one row too short for a window; a negative label
DatasetRuns ==
    {<<Run(1, 81)>>, <<Run(3, 81)>>, <<Run(1, 61), Run(2, 40)>>,
     <<Run(1, 50), Run(2, 31)>>, <<Run(0, 30), Run(1, 71)>>, <<Run(1, 60)>>,
     <<Run(-1, 81)>>}

DatasetRecordings ==
    {Recording(RunsLen(runs) * (SAMPLING_RATE_ORIG \div SAMPLING_RATE_TARGET) + 100,
               RunsLen(runs) * 16, runs) : runs \in DatasetRuns}
    \cup {Unloadable}

DatasetQuests ==
    {[readable |-> FALSE],
     [readable |-> TRUE, lines |-> <<>>],
     [readable |-> TRUE,
      lines |-> <<<<PANAS_MARKER>> \o ScoreFields(Len(PANAS_ITEMS), 0)>>],
     [readable |-> TRUE,
      lines |-> <<<<PANAS_MARKER>> \o ScoreFields(Len(PANAS_ITEMS), 0),
                  <<PANAS_MARKER>> \o ScoreFields(Len(PANAS_ITEMS), 1)>>]}

Missing == [exists |-> FALSE]

SubjectFiles ==
    {[pkl |-> [exists |-> TRUE, data |-> data],
      quest |-> [exists |-> TRUE, file |-> file]] :
        data \in DatasetRecordings, file \in DatasetQuests}
    \cup {[pkl |-> Missing,
           quest |-> [exists |-> TRUE, file |-> [readable |-> TRUE, lines |-> <<>>]]],
          [pkl |-> [exists |-> TRUE, data |-> Unloadable], quest |-> Missing]}

\* an entry that is no subject directory holds neither file
OtherFiles == [pkl |-> Missing, quest |-> Missing]

Directories ==
    UNION {{[name \in subjects \cup others |->
                IF name \in subjects THEN files[name] ELSE OtherFiles] :
               files \in [subjects -> SubjectFiles]} :
           subjects \in SUBSET SubjectNames, others \in SUBSET OtherNames}

\* the call of the notebook, and a request that resolves to no source
DatasetRequests ==
    {[selected_signals |-> <<"EDA", "TEMP", "RESP", "ECG", "ACC">>,
      device |-> "both"],
     [selected_signals |-> <<"BVP">>, device |-> "chest"]}

DatasetInputs ==
    {[root_path |-> root, selected_signals |-> req.selected_signals,
      device |-> req.device] :
        root \in Directories, req \in DatasetRequests}

Acc ==
    [all_x |-> all_x, all_y_cls |-> all_y_cls, all_y_reg |-> all_y_reg,
     all_subject_ids |-> all_subject_ids]

Init ==
    /\ pc = "call"
    /\ args \in DatasetInputs
    /\ ret = NoRet
    /\ Idle

\* for subject_dir in sorted(os.listdir(root_path))
ListSubjects ==
    /\ pc = "call"
    /\ pc' = "subjects"
    /\ todo' = py_sorted(os_listdir(args.root_path))
    /\ UNCHANGED <<args, ret, lists, globals, pool>>

\* if not subject_dir.startswith("S"): continue
SkipNotSubject ==
    /\ pc = "subjects"
    /\ todo # <<>>
    /\ ~py_startswith(Head(todo), <<"S">>)
    /\ todo' = Tail(todo)
    /\ UNCHANGED <<pc, args, ret, lists, globals, pool>>

\* if not os.path.exists(pkl_path) or not os.path.exists(quest_path): continue
SkipMissing ==
    /\ pc = "subjects"
    /\ todo # <<>>
    /\ py_startswith(Head(todo), <<"S">>)
    /\ LET files == args.root_path[Head(todo)]
       IN  ~files.pkl.exists \/ ~files.quest.exists
    /\ todo' = Tail(todo)
    /\ UNCHANGED <<pc, args, ret, lists, globals, pool>>

\* try: ... except Exception
TrySubject ==
    /\ pc = "subjects"
    /\ todo # <<>>
    /\ py_startswith(Head(todo), <<"S">>)
    /\ LET files == args.root_path[Head(todo)]
           after == load_wesad_dataset_try(Acc, Head(todo), files,
                                           args.selected_signals, args.device)
       IN  /\ files.pkl.exists
           /\ files.quest.exists
           /\ all_x' = after.all_x
           /\ all_y_cls' = after.all_y_cls
           /\ all_y_reg' = after.all_y_reg
           /\ all_subject_ids' = after.all_subject_ids
    /\ todo' = Tail(todo)
    /\ UNCHANGED <<pc, args, ret, globals, pool>>

\* return (np.concatenate(all_x), ...)
ReturnDataset ==
    /\ pc = "subjects"
    /\ todo = <<>>
    /\ ~load_wesad_dataset_return(Acc).raised
    /\ pc' = "returned"
    /\ ret' = load_wesad_dataset_return(Acc)
    /\ UNCHANGED <<args, todo, lists, globals, pool>>

\* return (np.concatenate(all_x), ...) raises ValueError: the run ends
RaiseDataset ==
    /\ pc = "subjects"
    /\ todo = <<>>
    /\ load_wesad_dataset_return(Acc).raised
    /\ pc' = "raised"
    /\ ret' = Raised
    /\ UNCHANGED <<args, todo, lists, globals, pool>>

\* X, y_cls, y_reg, subject_ids = load_wesad_dataset(...)
LoadCell ==
    /\ pc = "returned"
    /\ pc' = "loaded"
    /\ globals' = [X |-> ret.X, y_cls |-> ret.y_cls, y_reg |-> ret.y_reg,
                   subject_ids |-> ret.subject_ids]
    /\ UNCHANGED <<args, ret, todo, lists, pool>>

\* a[mask]: the entries of a at the positions where mask holds
RECURSIVE np_boolean_index(_, _)
np_boolean_index(a, mask) ==
    IF a = <<>> THEN <<>>
    ELSE (IF Head(mask) THEN <<Head(a)>> ELSE <<>>)
             \o np_boolean_index(Tail(a), Tail(mask))

\* np.isin(element, test_elements)
np_isin(element, test_elements) ==
    [i \in 1..Len(element) |->
        \E k \in 1..Len(test_elements) : test_elements[k] = element[i]]

\* set(subject_ids)
py_set(list) == {list[i] : i \in 1..Len(list)}

\* the permutations of 0 .. n - 1 that the shuffle may draw
ShufflePermutations(n) ==
    {perm \in [1..n -> 0..(n - 1)] : \A j, k \in 1..n : perm[j] = perm[k] => j = k}

\* the number of test samples of n: ceil(0.2 * n)
n_test_of(n) == (n + 4) \div 5

\* the mutant of train_test_split: the train part is drawn from all the samples
train_test_split_overlap(arrays, permutation) ==
    LET n == Len(arrays)
        n_test == n_test_of(n)
        n_train == n - n_test
    IN  IF n_train = 0 THEN Raised
        ELSE [raised |-> FALSE,
              train |-> [k \in 1..n_train |-> arrays[permutation[k] + 1]],
              test |-> [k \in 1..n_test |-> arrays[permutation[k] + 1]]]

\* train_test_split(arrays, test_size=0.2, random_state=42) for the
\* permutation the shuffle draws: the first n_test shuffled samples are the
\* test part, the following n_train the train part; ValueError when the train
\* part would be empty
train_test_split(arrays, permutation) ==
    LET n == Len(arrays)
        n_test == n_test_of(n)
        n_train == n - n_test
    IN  IF n_train = 0 THEN Raised
        ELSE [raised |-> FALSE,
              train |-> [k \in 1..n_train |-> arrays[permutation[n_test + k] + 1]],
              test |-> [k \in 1..n_test |-> arrays[permutation[k] + 1]]]

\* cell 9: the arrays of the regression task are kept, the windows of the
\* classification task are those of label 1 to 4
MaskCell ==
    /\ pc = "loaded"
    /\ pc' = "masked"
    /\ LET valid_mask == [i \in 1..Len(globals.y_cls) |->
                             globals.y_cls[i] >= 1 /\ globals.y_cls[i] <= 4]
           y_cls == np_boolean_index(globals.y_cls, valid_mask)
       IN  globals' = [X_reg |-> globals.X,
                       subject_ids_reg |-> globals.subject_ids,
                       X |-> np_boolean_index(globals.X, valid_mask),
                       y_cls |-> [i \in 1..Len(y_cls) |-> y_cls[i] - 1],
                       y_reg |-> globals.y_reg,
                       subject_ids |->
                           np_boolean_index(globals.subject_ids, valid_mask)]
    /\ UNCHANGED <<args, ret, todo, lists, pool>>

\* cell 10: the subjects are split, then the windows by their subject; the
\* cell ends with train_test_split's ValueError when there are too few subjects
SplitCell ==
    /\ pc = "masked"
    /\ LET unique_subjects == py_sorted(py_set(globals.subject_ids))
       IN  \E permutation \in ShufflePermutations(Len(unique_subjects)) :
               LET split == train_test_split(unique_subjects, permutation)
               IN  IF split.raised
                   THEN /\ pc' = "raised"
                        /\ globals' = globals
                   ELSE /\ pc' = "split"
                        /\ globals' =
                               [X_reg |-> globals.X_reg,
                                subject_ids_reg |-> globals.subject_ids_reg,
                                X |-> globals.X,
                                y_cls |-> globals.y_cls,
                                y_reg |-> globals.y_reg,
                                subject_ids |-> globals.subject_ids,
                                train_subjects |-> split.train,
                                val_subjects |-> split.test,
                                train_mask |->
                                    np_isin(globals.subject_ids, split.train),
                                val_mask |->
                                    np_isin(globals.subject_ids, split.test)]
    /\ UNCHANGED <<args, ret, todo, lists, pool>>

\* cell 11: X_train, y_cls_train = X[train_mask], y_cls[train_mask], and the
\* same for val
TrainValCell ==
    /\ pc = "split"
    /\ pc' = "cls"
    /\ globals' = [field \in DOMAIN globals \cup
                                 {"X_train", "y_cls_train", "X_val", "y_cls_val"} |->
           CASE field = "X_train" ->
                    np_boolean_index(globals.X, globals.train_mask)
             [] field = "y_cls_train" ->
                    np_boolean_index(globals.y_cls, globals.train_mask)
             [] field = "X_val" ->
                    np_boolean_index(globals.X, globals.val_mask)
             [] field = "y_cls_val" ->
                    np_boolean_index(globals.y_cls, globals.val_mask)
             [] OTHER -> globals[field]]
    /\ UNCHANGED <<args, ret, todo, lists, pool>>

\* (y_reg - 1) / 4.0, each component as the fraction num / den
rescale(y_reg) ==
    [i \in 1..Len(y_reg) |->
        [k \in 1..Len(y_reg[i]) |-> [num |-> y_reg[i][k] - 1, den |-> 4]]]

\* cell 21: the subject ids of all the windows are taken back, the targets
\* are rescaled, and all the windows are split by the subject lists of cell 10
RescaleCell ==
    /\ pc = "cls"
    /\ pc' = "rescaled"
    /\ LET subject_ids == globals.subject_ids_reg
           y_reg == rescale(globals.y_reg)
           train_mask == np_isin(subject_ids, globals.train_subjects)
           val_mask == np_isin(subject_ids, globals.val_subjects)
       IN  globals' = [field \in DOMAIN globals \cup
                                     {"y_reg_train", "y_reg_val"} |->
               CASE field = "subject_ids" -> subject_ids
                 [] field = "y_reg" -> y_reg
                 [] field = "train_mask" -> train_mask
                 [] field = "val_mask" -> val_mask
                 [] field = "X_train" ->
                        np_boolean_index(globals.X_reg, train_mask)
                 [] field = "y_reg_train" -> np_boolean_index(y_reg, train_mask)
                 [] field = "X_val" -> np_boolean_index(globals.X_reg, val_mask)
                 [] field = "y_reg_val" -> np_boolean_index(y_reg, val_mask)
                 [] OTHER -> globals[field]]
    /\ UNCHANGED <<args, ret, todo, lists, pool>>

Next ==
    \/ ListSubjects
    \/ SkipNotSubject
    \/ SkipMissing
    \/ TrySubject
    \/ ReturnDataset
    \/ RaiseDataset
    \/ LoadCell
    \/ MaskCell
    \/ SplitCell
    \/ TrainValCell
    \/ RescaleCell

Spec == Init /\ [][Next]_vars

(***************************************************************************)
(* The specification of the notebook's cells after load_wesad_dataset has  *)
(* returned: the arrays of one to four subjects, each with one or two      *)
(* windows, some of a label outside 1..4.  A window is here the pair of    *)
(* its subject and its number.                                             *)
(***************************************************************************)
SplitSubjects ==
    {<<"S", "2">>, <<"S", "3">>, <<"S", "4">>, <<"S", "5">>}

\* the labels of a subject's windows
SplitLabels == {<<1>>, <<5>>, <<2, 6>>}

\* the arrays load_wesad_dataset returns for the subjects names, in order
RECURSIVE LoadedArrays(_, _)
LoadedArrays(names, labels) ==
    IF names = <<>>
    THEN [raised |-> FALSE, X |-> <<>>, y_cls |-> <<>>, y_reg |-> <<>>,
          subject_ids |-> <<>>]
    ELSE LET name == Head(names)
             y == labels[name]
             rest == LoadedArrays(Tail(names), labels)
         IN  [raised |-> FALSE,
              X |-> [k \in 1..Len(y) |-> [subject |-> name, window |-> k]]
                        \o rest.X,
              y_cls |-> y \o rest.y_cls,
              y_reg |-> [k \in 1..Len(y) |->
                            [a \in 1..Len(TARGET_PANAS) |-> 3]] \o rest.y_reg,
              subject_ids |-> [k \in 1..Len(y) |-> name] \o rest.subject_ids]

LoadedResults ==
    UNION {{LoadedArrays(py_sorted(S), labels) : labels \in [S -> SplitLabels]} :
           S \in (SUBSET SplitSubjects) \ {{}}}

InitSplit ==
    /\ pc = "returned"
    /\ args = NoRet
    /\ ret \in LoadedResults
    /\ Idle

NextSplit ==
    \/ LoadCell
    \/ MaskCell
    \/ SplitCell
    \/ TrainValCell
    \/ RescaleCell

SpecSplit == InitSplit /\ [][NextSplit]_vars

(***************************************************************************)
(* The specification of load_and_downsample followed by create_windows, as *)
(* in the body of load_wesad_dataset's try but with a window length and    *)
(* stride of the caller's: recordings of 7000 labelled samples whose       *)
(* resampled labels are 1 up to some row and 2 from there on, the default  *)
(* signals of the chest device.                                            *)
(***************************************************************************)
ExampleInputs ==
    {[data |-> Recording(7000, 40, <<Run(1, c), Run(2, 40 - c)>>),
      signals |-> <<"EDA", "TEMP", "RESP", "ECG", "ACC">>,
      device |-> "chest",
      window_size |-> ws[1], stride |-> ws[2]] :
        c \in 1..39, ws \in {<<8, 4>>, <<8, 8>>, <<4, 4>>}}

InitExample ==
    /\ pc = "call"
    /\ args \in ExampleInputs
    /\ ret = NoRet
    /\ Idle

\* X_raw, y_raw = load_and_downsample(pkl_path, selected_signals, device)
ExampleDownsample ==
    /\ pc = "call"
    /\ LET loaded == load_and_downsample(args.data, args.signals, args.device)
       IN  /\ pc' = IF loaded.raised THEN "raised" ELSE "downsampled"
           /\ globals' = IF loaded.raised THEN globals
                         ELSE [X_raw |-> loaded.all_signals,
                               y_raw |-> loaded.labels]
    /\ UNCHANGED <<args, ret, todo, lists, pool>>

\* X_norm = normalize(X_raw); X, y = create_windows(X_norm, y_raw, ...)
ExampleWindows ==
    /\ pc = "downsampled"
    /\ pc' = "done"
    /\ ret' = create_windows(MatrixRows(normalize(globals.X_raw)),
                             globals.y_raw, args.window_size, args.stride)
    /\ UNCHANGED <<args, todo, lists, globals, pool>>

NextExample ==
    \/ ExampleDownsample
    \/ ExampleWindows

SpecExample == InitExample /\ [][NextExample]_vars

(***************************************************************************)
(* The audio notebook, src/src/AudioDescriptions.ipynb: process_audio is   *)
(* mapped over the .mp3 files of AUDIO_DIR by a multiprocessing.Pool of    *)
(* two worker processes.  A file name is the sequence of its characters.   *)
(* The machine is the number of CUDA devices it has and, for every file,   *)
(* the step of process_audio's try block that raises for it ("none" when   *)
(* no step does).                                                          *)
(***************************************************************************)
AUDIO_DIR == "downloads"
EMBED_SIZE == 512

\* Pool(processes=2)
processes == 2

\* f.endswith(suffix)
py_endswith(s, suffix) ==
    /\ Len(s) >= Len(suffix)
    /\ SubSeq(s, Len(s) - Len(suffix) + 1, Len(s)) = suffix

\* os.path.join(dir, f), for a name f without a separator
os_path_join(dir, f) == [dirname |-> dir, basename |-> f]

\* os.path.basename(path)
os_path_basename(path) == path.basename

\* [os.path.join(AUDIO_DIR, f) for f in os.listdir(AUDIO_DIR) if f.endswith(".mp3")]
audio_files_of(listing) ==
    LET mp3 == SelectSeq(listing, LAMBDA f : py_endswith(f, <<".", "m", "p", "3">>))
    IN  [k \in 1..Len(mp3) |-> os_path_join(AUDIO_DIR, mp3[k])]

\* the mutant of assign_gpu: every file on GPU 0
assign_gpu_zero(index) == 0

assign_gpu(index) == IF index % 2 = 0 THEN 0 ELSE 1

\* [(f, assign_gpu(i)) for i, f in enumerate(audio_files)]
file_gpu_pairs_of(audio_files) ==
    [k \in 1..Len(audio_files) |-> <<audio_files[k], assign_gpu(k - 1)>>]

\* torch.cuda.set_device(gpu_id) raises for a device the machine does not have
torch_cuda_set_device_raises(gpu_id, device_count) == gpu_id >= device_count

\* the steps of the try block, in order: librosa.load, openl3's embedding,
\* musicnn's top_tags
TrySteps == <<"load", "embedding", "tagging">>

\* the try block and its except clause
process_audio_try(path, fname, failing) ==
    IF failing # "none"
    THEN [file |-> fname, error |-> failing]
    ELSE [file |-> fname, embedding |-> EMBED_SIZE, tags |-> "tags"]

\* process_audio(args) on a machine: the exception that leaves it, or the
\* record it returns and the device it ran on
process_audio(a, machine) ==
    LET path == a[1]
        gpu_id == a[2]
        fname == os_path_basename(path)
    IN  IF torch_cuda_set_device_raises(gpu_id, machine.device_count)
        THEN Raised
        ELSE [raised |-> FALSE,
              value |-> process_audio_try(path, fname, machine.failing[fname]),
              device |-> gpu_id]

\* Pool.map's chunk length for an iterable of n items
map_chunksize(n) ==
    IF n = 0 THEN 0
    ELSE (n \div (processes * 4)) + (IF n % (processes * 4) # 0 THEN 1 ELSE 0)

\* the number of chunks of n items
map_chunks(n) ==
    IF n = 0 THEN 0
    ELSE (n + map_chunksize(n) - 1) \div map_chunksize(n)

\* the mutant of the chunks: every chunk holds the items of the first
chunk_items_first(i, n) == py_range(1, Min(map_chunksize(n), n) + 1, 1)

\* the positions 1..n of the items of chunk i, counted from 0
chunk_items(i, n) ==
    py_range(i * map_chunksize(n) + 1,
             Min((i + 1) * map_chunksize(n), n) + 1, 1)

\* mapstar over a chunk: the items' results in order, until one raises
RECURSIVE mapstar(_, _, _)
mapstar(pairs, items, machine) ==
    IF items = <<>> THEN [raised |-> FALSE, values |-> <<>>, devices |-> <<>>]
    ELSE LET first == process_audio(pairs[Head(items)], machine)
             rest == mapstar(pairs, Tail(items), machine)
         IN  IF first.raised THEN Raised
             ELSE IF rest.raised THEN Raised
             ELSE [raised |-> FALSE,
                   values |-> <<first.value>> \o rest.values,
                   devices |-> <<first.device>> \o rest.devices]

\* the position in the result list of the first item of chunk i
map_slot(i, n) == i * map_chunksize(n) + 1

\* MapResult._set: a chunk's results go to the chunk's slots, a failure
\* makes the whole map fail
map_set(p, i, outcome, n) ==
    IF outcome.raised
    THEN [p EXCEPT !.number_left = @ - 1, !.success = FALSE]
    ELSE [p EXCEPT !.number_left = @ - 1,
                   !.value = [k \in DOMAIN @ |->
                       IF /\ k >= map_slot(i, n)
                          /\ k < map_slot(i, n) + Len(outcome.values)
                       THEN <<outcome.values[k - map_slot(i, n) + 1]>>
                       ELSE @[k]]]

(***************************************************************************)
(* The specification of the audio notebook's run: every listing of at most *)
(* three .mp3 files and one other file, in every order os.listdir may give *)
(* them, on a machine of 0 to 2 CUDA devices, every file failing at any or *)
(* no step.  The workers take the chunks of the map from the task queue as *)
(* they become free and hand their results back through the result queue.  *)
(* A worker's task, a slot of the result list and a file's device are <<>>  *)
(* while there is none, and <<v>> once it is v.                            *)
(***************************************************************************)
Mp3Names ==
    {<<"a", ".", "m", "p", "3">>, <<"b", ".", "m", "p", "3">>,
     <<"c", ".", "m", "p", "3">>}

OtherAudioNames == {<<"a", ".", "t", "x", "t">>}

\* the orders os.listdir may list the names of S in
Orderings(S) ==
    {l \in [1..Cardinality(S) -> S] : \A j, k \in DOMAIN l : l[j] = l[k] => j = k}

Machines(names) ==
    [device_count : 0..processes,
     failing : [{f \in names : f \in Mp3Names} ->
                   {"none"} \cup {TrySteps[k] : k \in DOMAIN TrySteps}]]

AudioInputs ==
    UNION {{[listing |-> l, machine |-> m] : l \in Orderings(S), m \in Machines(S)} :
           S \in SUBSET (Mp3Names \cup OtherAudioNames)}

Workers == 1..processes

InitAudio ==
    /\ pc = "call"
    /\ args \in AudioInputs
    /\ ret = NoRet
    /\ Idle

\* the cell up to pool.map's hand-over of the chunks to the task queue
StartMap ==
    /\ pc = "call"
    /\ pc' = "map"
    /\ LET audio_files == audio_files_of(args.listing)
           n == Len(audio_files)
       IN  /\ globals' = [audio_files |-> audio_files,
                          file_gpu_pairs |-> file_gpu_pairs_of(audio_files)]
           /\ pool' = [taskqueue |-> py_range(0, map_chunks(n), 1),
                       worker |-> [w \in Workers |-> <<>>],
                       outqueue |-> <<>>,
                       value |-> [k \in 1..n |-> <<>>],
                       device |-> [k \in 1..n |-> <<>>],
                       success |-> TRUE,
                       number_left |-> map_chunks(n)]
    /\ UNCHANGED <<args, ret, todo, lists>>

\* a free worker takes the next chunk from the task queue
WorkerGet(w) ==
    /\ pc = "map"
    /\ pool.worker[w] = <<>>
    /\ pool.taskqueue # <<>>
    /\ pool' = [pool EXCEPT !.worker[w] = <<Head(pool.taskqueue)>>,
                            !.taskqueue = Tail(@)]
    /\ UNCHANGED <<pc, args, ret, todo, lists, globals>>

\* a worker runs process_audio over its chunk and puts the outcome on the
\* result queue
WorkerRun(w) ==
    /\ pc = "map"
    /\ pool.worker[w] # <<>>
    /\ LET i == pool.worker[w][1]
           n == Len(globals.file_gpu_pairs)
           items == chunk_items(i, n)
           outcome == mapstar(globals.file_gpu_pairs, items, args.machine)
       IN  pool' = [pool EXCEPT
               !.worker[w] = <<>>,
               !.outqueue = Append(@, [i |-> i, outcome |-> outcome]),
               !.device = [k \in DOMAIN @ |->
                   IF outcome.raised \/ k < map_slot(i, n)
                                     \/ k >= map_slot(i, n) + Len(items)
                   THEN @[k]
                   ELSE <<outcome.devices[k - map_slot(i, n) + 1]>>]]
    /\ UNCHANGED <<pc, args, ret, todo, lists, globals>>

\* the pool's result handler takes an outcome off the result queue
HandleResult ==
    /\ pc = "map"
    /\ pool.outqueue # <<>>
    /\ LET head == Head(pool.outqueue)
       IN  pool' = [map_set(pool, head.i, head.outcome,
                            Len(globals.file_gpu_pairs))
                        EXCEPT !.outqueue = Tail(pool.outqueue)]
    /\ UNCHANGED <<pc, args, ret, todo, lists, globals>>

\* results = pool.map(...) returns once every chunk is in, and the results
\* are written to audio_features.json
MapReturn ==
    /\ pc = "map"
    /\ pool.number_left = 0
    /\ pool.success
    /\ pc' = "done"
    /\ globals' = [audio_files |-> globals.audio_files,
                   file_gpu_pairs |-> globals.file_gpu_pairs,
                   results |-> [k \in DOMAIN pool.value |-> pool.value[k][1]],
                   audio_features_json |->
                       [k \in DOMAIN pool.value |-> pool.value[k][1]]]
    /\ UNCHANGED <<args, ret, todo, lists, pool>>

\* pool.map(...) raises the exception that left process_audio in a worker,
\* once every chunk is in: the cell ends without results
MapRaise ==
    /\ pc = "map"
    /\ pool.number_left = 0
    /\ ~pool.success
    /\ pc' = "raised"
    /\ ret' = Raised
    /\ UNCHANGED <<args, todo, lists, globals, pool>>

NextAudio ==
    \/ StartMap
    \/ \E w \in Workers : WorkerGet(w)
    \/ \E w \in Workers : WorkerRun(w)
    \/ HandleResult
    \/ MapReturn
    \/ MapRaise

SpecAudio == InitAudio /\ [][NextAudio]_vars

(***************************************************************************)
(* Claims about create_windows, checked under SpecWindows.                 *)
(***************************************************************************)
NonNegative(y) == \A k \in 1..Len(y) : y[k] >= 0

\* the number of rows of window w whose label is v
CountIn(y, w, v) == Cardinality({k \in 1..Len(w) : y[w[k] + 1] = v})

\* the returned window that starts at row i, if any
EmittedAt(i) ==
    \E j \in 1..Len(ret.windows) :
        ret.windows[j] = py_slice(args.X, i, i + args.window_size)

\* C1: for a label series of length N >= W without any sentinel sample,
\* create_windows emits floor((N - W) / S) + 1 windows (the window starting at
\* N - W included).
C1_WindowCount ==
    (/\ pc = "done"
     /\ Len(args.y) >= args.window_size
     /\ NonNegative(args.y)
     /\ ~np_any_eq(args.y, 0))
    => /\ ~ret.raised
       /\ Len(ret.windows) =
              ((Len(args.y) - args.window_size) \div args.stride) + 1

\* C2: a candidate window (start a multiple of S, W rows inside the series) is
\* dropped if and only if one of its labels is the sentinel 0.
C2_DroppedIffSentinel ==
    (pc = "done" /\ NonNegative(args.y))
    => \A i \in 0..(Len(args.y) - args.window_size) :
           i % args.stride = 0
           => (~EmittedAt(i)
               <=> np_any_eq(py_slice(args.y, i, i + args.window_size), 0))

\* C3: the label of every emitted window is the mode of the labels of its rows,
\* the smallest value among those that tie for the highest count.
C3_MajoritySmallestTie ==
    (pc = "done" /\ ~ret.raised)
    => /\ Len(ret.labels) = Len(ret.windows)
       /\ \A j \in 1..Len(ret.windows) :
              LET w == ret.windows[j]
                  l == ret.labels[j]
              IN  /\ CountIn(args.y, w, l) > 0
                  /\ \A v \in Labels :
                         /\ CountIn(args.y, w, v) <= CountIn(args.y, w, l)
                         /\ CountIn(args.y, w, v) = CountIn(args.y, w, l)
                                => l <= v

\* an emitted window in which two labels tie for the highest count
C3_Witness ==
    /\ pc = "done"
    /\ ~ret.raised
    /\ \E j \in 1..Len(ret.windows) :
           \E v \in Labels :
               /\ v # ret.labels[j]
               /\ CountIn(args.y, ret.windows[j], v)
                      = CountIn(args.y, ret.windows[j], ret.labels[j])

\* C20: for labels that are not negative, every label create_windows emits is
\* at least 1, never the sentinel 0, so that the condition index label - 1 of
\* load_wesad_dataset is not negative and the look-up of the score set never
\* counts from the end of the list
C20_EmittedLabelAtLeastOne ==
    (pc = "done" /\ NonNegative(args.y) /\ ~ret.raised)
    => \A j \in 1..Len(ret.labels) :
           /\ ret.labels[j] >= 1
           /\ \A n \in 1..MaxLabel :
                  ~py_index_raises([k \in 1..n |-> k], ret.labels[j] - 1)
                  => py_index([k \in 1..n |-> k], ret.labels[j] - 1)
                         = ret.labels[j]

\* a series with sentinel rows of which a window is emitted
C20_Witness ==
    /\ pc = "done"
    /\ ~ret.raised
    /\ NonNegative(args.y)
    /\ np_any_eq(args.y, 0)
    /\ ret.labels # <<>>

(***************************************************************************)
(* Claims about load_and_downsample, checked under SpecDownsample.         *)
(***************************************************************************)
\* the requested (signal, part) pairs that the device mode selects and that
\* SIGNAL_MAP knows a key for
ResolvedSources(signals, device) ==
    {<<k, part>> \in (1..Len(signals)) \X {"chest", "wrist"} :
        /\ device \in {part, "both"}
        /\ SIGNAL_MAP[signals[k]][part] # None}

\* n is x / 700 rounded to the nearest integer (no x here is half-way)
IsNearest(n, x) ==
    /\ 2 * n * SAMPLING_RATE_ORIG <= 2 * x + SAMPLING_RATE_ORIG
    /\ 2 * x - SAMPLING_RATE_ORIG < 2 * n * SAMPLING_RATE_ORIG

\* n is x / 700 truncated
IsTruncation(n, x) ==
    n * SAMPLING_RATE_ORIG <= x /\ x < (n + 1) * SAMPLING_RATE_ORIG

C5_SignalsAndLabelsAligned ==
    pc = "done"
    => /\ ret.raised
           <=> \/ ~args.data.loadable
               \/ ResolvedSources(args.signals, args.device) = {}
       /\ ~ret.raised
           => /\ Len(ret.labels) = ret.all_signals.rows
              /\ Len(ret.all_signals.cols)
                     = Cardinality(ResolvedSources(args.signals, args.device))

\* chest and wrist sources of different native lengths end up in one matrix
C5_Witness ==
    /\ pc = "done"
    /\ ~ret.raised
    /\ args.data.signal.wrist["EDA"].rows # args.data.signal.chest["EDA"].rows
    /\ \E i, j \in 1..Len(ret.all_signals.cols) :
           /\ ret.all_signals.cols[i][1] = "chest"
           /\ ret.all_signals.cols[j][1] = "wrist"

\* C15: a request that resolves to no physical source (only BVP from the
\* chest, only ECG from the wrist) makes load_and_downsample raise; whatever
\* the request, a signal matrix that is returned has at least one column
C15_NoSourceIsAnError ==
    pc = "done"
    => /\ ResolvedSources(args.signals, args.device) = {} => ret.raised
       /\ ~ret.raised
           => /\ ret.all_signals.cols # <<>>
              /\ ret.all_signals.rows = new_len(args.data.label.len)

\* a loadable recording asked for BVP of the chest device only
C15_Witness ==
    /\ pc = "done"
    /\ args.data.loadable
    /\ args.signals = <<"BVP">>
    /\ args.device = "chest"
    /\ ret.raised

\* the channels each device records
Available ==
    [chest |-> {"EDA", "TEMP", "RESP", "ECG", "ACC", "EMG"},
     wrist |-> {"EDA", "TEMP", "ACC", "BVP"}]

\* the (position in the request, device) pairs that the mode selects and that
\* are available
SelectedPairs(signals, device) ==
    {p \in (1..Len(signals)) \X {"chest", "wrist"} :
        /\ device \in {p[2], "both"}
        /\ signals[p[1]] \in Available[p[2]]}

\* pair q comes before pair p: an earlier channel of the request, or the chest
\* of the same channel
PairBefore(q, p) ==
    \/ q[1] < p[1]
    \/ q[1] = p[1] /\ q[2] = "chest" /\ p[2] = "wrist"

\* C16: for every channel list and every device mode, the column groups of the
\* signal matrix are exactly the selected and available (channel, device)
\* pairs, by channel in request order and chest before wrist within a channel;
\* a channel that is not available contributes no column
C16_ColumnsInRequestOrder ==
    (pc = "done" /\ ~ret.raised)
    => LET pairs == SelectedPairs(args.signals, args.device)
           cols == ret.all_signals.cols
       IN  /\ Len(cols) = Cardinality(pairs)
           /\ \A p \in pairs :
                  LET place == Cardinality({q \in pairs : PairBefore(q, p)}) + 1
                  IN  cols[place]
                          = args.data.signal[p[2]][SIGNAL_MAP[args.signals[p[1]]][p[2]]]
                                .cols[1]

\* both devices, a request with a channel of both devices and a channel that
\* the wrist does not have
C16_Witness ==
    /\ pc = "done"
    /\ ~ret.raised
    /\ args.device = "both"
    /\ Cardinality(SelectedPairs(args.signals, args.device)) > Len(args.signals)
    /\ \E k \in 1..Len(args.signals) :
           <<k, "wrist">> \notin SelectedPairs(args.signals, args.device)

(***************************************************************************)
(* Claims about extract_panas_scores, checked under SpecPanas.             *)
(***************************************************************************)
HasMarker(line) == line # <<>> /\ py_startswith(line[1], PANAS_MARKER)

\* the fields after the first that hold a number
NumericFieldCount(line) ==
    Cardinality({k \in 2..Len(line) :
                    py_isdigit(py_strip(line[k])) /\ ~py_int_raises(line[k])})

\* a field after the first that looks like a number and that int() rejects
HasRejectedField(line) ==
    \E k \in 2..Len(line) :
        py_isdigit(py_strip(line[k])) /\ py_int_raises(line[k])

RemoveAt(seq, k) == SubSeq(seq, 1, k - 1) \o SubSeq(seq, k + 1, Len(seq))

\* line k contributes nothing: the file without it gives the same score sets
ContributesNothing(k) ==
    extract_panas_scores(
        [readable |-> TRUE, lines |-> RemoveAt(args.quest.lines, k)])
            .condition_scores = ret.condition_scores

\* C8 as stated: a line without the marker and a marker line with fewer than
\* 26 numeric fields contribute no score row, and the number of score sets is
\* the number of marker lines with at least 26 numeric fields.
C8_RowsAsStated ==
    (pc = "done" /\ ~ret.raised)
    => LET lines == args.quest.lines
       IN  /\ \A k \in 1..Len(lines) :
                  (\/ ~HasMarker(lines[k])
                   \/ NumericFieldCount(lines[k]) < Len(PANAS_ITEMS))
                  => ContributesNothing(k)
           /\ Len(ret.condition_scores)
                  = Cardinality({k \in 1..Len(lines) :
                        /\ HasMarker(lines[k])
                        /\ NumericFieldCount(lines[k]) >= Len(PANAS_ITEMS)})

\* C8 as amended: a line without the marker and a marker line with fewer than
\* 26 numeric fields contribute no score row, and the number of score sets is
\* the number of marker lines with at least 26 numeric fields and without a
\* digit-like field that int() rejects (such a line raises and is skipped).
C8_RowsAmended ==
    (pc = "done" /\ ~ret.raised)
    => LET lines == args.quest.lines
       IN  /\ \A k \in 1..Len(lines) :
                  (\/ ~HasMarker(lines[k])
                   \/ NumericFieldCount(lines[k]) < Len(PANAS_ITEMS))
                  => ContributesNothing(k)
           /\ Len(ret.condition_scores)
                  = Cardinality({k \in 1..Len(lines) :
                        /\ HasMarker(lines[k])
                        /\ NumericFieldCount(lines[k]) >= Len(PANAS_ITEMS)
                        /\ ~HasRejectedField(lines[k])})

\* a file with an accepted marker line and a marker line of 26 numbers that is
\* skipped for a field int() rejects
C8_Witness ==
    /\ pc = "done"
    /\ ~ret.raised
    /\ Len(ret.condition_scores) = 1
    /\ \E k \in 1..Len(args.quest.lines) :
           /\ HasMarker(args.quest.lines[k])
           /\ NumericFieldCount(args.quest.lines[k]) >= Len(PANAS_ITEMS)
           /\ HasRejectedField(args.quest.lines[k])

(***************************************************************************)
(* Claims about load_wesad_dataset and the rescaling cell, checked under   *)
(* Spec.                                                                   *)
(***************************************************************************)
SubjectDirs == {name \in DOMAIN args.root_path : py_startswith(name, <<"S">>)}

\* the subject directories the loop has gone through
Processed ==
    IF pc = "call" THEN {}
    ELSE {name \in SubjectDirs : \A k \in 1..Len(todo) : todo[k] # name}

BothFilesExist(name) ==
    args.root_path[name].pkl.exists /\ args.root_path[name].quest.exists

\* the resampled labels of a subject's recording
SubjectLabels(name) ==
    LET runs == args.root_path[name].pkl.data.label.resampled
    IN  [k \in 1..RunsLen(runs) |-> RunValue(runs, k)]

\* what create_windows makes of a subject's recording
SubjectWindows(name) ==
    create_windows(Rows(Len(SubjectLabels(name))), SubjectLabels(name),
                   WINDOW_SIZE_SEC * SAMPLING_RATE_TARGET,
                   STRIDE_SEC * SAMPLING_RATE_TARGET)

\* the number of score sets of a subject's questionnaire
ScoreSetCount(name) ==
    LET lines == args.root_path[name].quest.file.lines
    IN  Cardinality({k \in 1..Len(lines) :
            /\ HasMarker(lines[k])
            /\ NumericFieldCount(lines[k]) >= Len(PANAS_ITEMS)
            /\ ~HasRejectedField(lines[k])})

\* a subject whose files exist and load, whose windows are made and whose
\* questionnaire is read
Sound(name) ==
    /\ BothFilesExist(name)
    /\ args.root_path[name].pkl.data.loadable
    /\ ResolvedSources(args.selected_signals, args.device) # {}
    /\ ~SubjectWindows(name).raised
    /\ args.root_path[name].quest.file.readable

ZeroTarget == [k \in 1..Len(TARGET_PANAS) |-> 0]

\* C6: a window whose label l has l - 1 >= len(score sets of its subject) gets
\* the all-zero target of len(TARGET_PANAS) components; nothing is raised for
\* it and the window is kept: every sound subject gone through has its arrays
\* in the lists.
C6_FallbackIsZeroVector ==
    /\ \A j \in 1..Len(all_y_reg) :
           \A i \in 1..Len(all_y_reg[j].items) :
               all_y_cls[j].items[i] - 1
                   >= ScoreSetCount(all_subject_ids[j].items[i])
               => all_y_reg[j].items[i] = ZeroTarget
    /\ Len(all_y_reg) = Cardinality({name \in Processed : Sound(name)})
    /\ \A name \in Processed :
           Sound(name)
           => \E j \in 1..Len(all_y_reg) :
                  /\ Len(all_y_reg[j].items) = Len(SubjectWindows(name).windows)
                  /\ all_y_cls[j].items = SubjectWindows(name).labels

\* a returned window whose label has no score set
C6_Witness ==
    /\ pc = "returned"
    /\ \E i \in 1..Len(ret.y_cls) :
           /\ ret.y_cls[i] - 1 >= ScoreSetCount(ret.subject_ids[i])
           /\ ret.y_reg[i] = ZeroTarget

\* every score of every questionnaire of the directory is in 1..5
ScoresInRange ==
    \A name \in SubjectDirs :
        (BothFilesExist(name) /\ args.root_path[name].quest.file.readable)
        => LET lines == args.root_path[name].quest.file.lines
           IN  \A k \in 1..Len(lines) : \A f \in 2..Len(lines[k]) :
                   py_int(lines[k][f]) \in 1..5

\* C7: after y_reg = (y_reg - 1) / 4, every component of every regression
\* target lies in [0, 1], for scores in 1..5, fallback targets included.
C7_TargetsInUnitInterval ==
    (pc = "rescaled" /\ ScoresInRange)
    => \A i \in 1..Len(globals.y_reg) :
           \A k \in 1..Len(globals.y_reg[i]) :
               /\ 0 <= globals.y_reg[i][k].num
               /\ globals.y_reg[i][k].num <= globals.y_reg[i][k].den

\* the entries of the returned arrays that carry the subject's name
EntriesOf(name) == {i \in 1..Len(ret.subject_ids) : ret.subject_ids[i] = name}

\* C9: a subject directory without its record or its questionnaire, or whose
\* loading raises, is skipped and is never fatal: whatever the subjects of the
\* directory, the function returns, with the data of the other subjects.
C9_SkippedNeverFatal ==
    SubjectDirs # {}
    => /\ pc # "raised"
       /\ pc = "returned"
          => \A name \in SubjectDirs :
                 Cardinality(EntriesOf(name))
                     = IF Sound(name) THEN Len(SubjectWindows(name).windows)
                       ELSE 0

\* entry i of the returned arrays is one window of its subject, with the label
\* and the target of that window
AlignedEntry(i) ==
    LET name == ret.subject_ids[i]
        w == ret.X[i]
        l == ret.y_cls[i]
        y == SubjectLabels(name)
        sets == extract_panas_scores(args.root_path[name].quest.file)
                    .condition_scores
    IN  /\ name \in SubjectDirs
        /\ Sound(name)
        /\ Len(w) = WINDOW_SIZE_SEC * SAMPLING_RATE_TARGET
        /\ w = py_slice(Rows(Len(y)), w[1], w[1] + Len(w))
        /\ \A v \in {y[k] : k \in 1..Len(y)} : CountIn(y, w, v) <= CountIn(y, w, l)
        /\ CountIn(y, w, l) > 0
        /\ ret.y_reg[i]
               = IF l - 1 >= Len(sets) THEN ZeroTarget
                 ELSE [k \in 1..Len(TARGET_PANAS) |-> sets[l][TARGET_PANAS[k]]]

\* C10: the four arrays have the same length and entry i of each belongs to
\* the same window of the same subject; a subject that fails part-way leaves
\* an entry in none of the four lists.
C10_FourArraysAligned ==
    /\ Len(all_x) = Len(all_subject_ids)
    /\ Len(all_y_cls) = Len(all_subject_ids)
    /\ Len(all_y_reg) = Len(all_subject_ids)
    /\ \A j \in 1..Len(all_subject_ids) :
           /\ Len(all_x[j].items) = Len(all_subject_ids[j].items)
           /\ Len(all_y_cls[j].items) = Len(all_subject_ids[j].items)
           /\ Len(all_y_reg[j].items) = Len(all_subject_ids[j].items)
    /\ pc = "returned"
       => /\ Len(ret.X) = Len(ret.subject_ids)
          /\ Len(ret.y_cls) = Len(ret.subject_ids)
          /\ Len(ret.y_reg) = Len(ret.subject_ids)
          /\ \A i \in 1..Len(ret.subject_ids) : AlignedEntry(i)

\* arrays are returned that hold the windows of one subject while the other
\* subject failed after its windows were made, at its questionnaire
C10_Witness ==
    /\ pc = "returned"
    /\ Len(ret.X) > 0
    /\ \E name \in SubjectDirs :
           /\ BothFilesExist(name)
           /\ args.root_path[name].pkl.data.loadable
           /\ ~SubjectWindows(name).raised
           /\ Len(SubjectWindows(name).windows) > 0
           /\ ~args.root_path[name].quest.file.readable

\* a questionnaire line that gives a score set
IsAccepted(line) ==
    /\ HasMarker(line)
    /\ NumericFieldCount(line) >= Len(PANAS_ITEMS)
    /\ ~HasRejectedField(line)

\* the numbers of a line, in the line's order
NumericValues(line) ==
    LET fields == SelectSeq(Tail(line), LAMBDA f : py_isdigit(py_strip(f)))
    IN  [k \in 1..Len(fields) |-> py_int(fields[k])]

\* the place of an adjective in the vocabulary
ItemPosition(item) == CHOOSE p \in 1..Len(PANAS_ITEMS) : PANAS_ITEMS[p] = item

\* the scores of the target adjectives in the n-th accepted line, in
\* TARGET_PANAS order
TargetOfLine(lines, n) ==
    LET accepted == SelectSeq(lines, LAMBDA line : IsAccepted(line))
    IN  [k \in 1..Len(TARGET_PANAS) |->
            NumericValues(accepted[n])[ItemPosition(TARGET_PANAS[k])]]

\* C14: a window of label l with 0 <= l - 1 < len(score sets of its subject)
\* has as regression target the score set at index l - 1 of its subject's
\* questionnaire, i.e. the scores of the l-th accepted line, restricted to the
\* TARGET_PANAS adjectives in their order: len(TARGET_PANAS) components
C14_TargetIsScoreSetOfLabel ==
    \A j \in 1..Len(all_y_reg) :
        \A i \in 1..Len(all_y_reg[j].items) :
            LET l == all_y_cls[j].items[i]
                name == all_subject_ids[j].items[i]
            IN  (0 <= l - 1 /\ l - 1 < ScoreSetCount(name))
                => /\ Len(all_y_reg[j].items[i]) = Len(TARGET_PANAS)
                   /\ all_y_reg[j].items[i]
                          = TargetOfLine(args.root_path[name].quest.file.lines, l)

\* a returned window of label 2 whose subject has two score sets that differ
\* in the target adjectives
C14_Witness ==
    /\ pc = "returned"
    /\ \E i \in 1..Len(ret.y_cls) :
           LET lines == args.root_path[ret.subject_ids[i]].quest.file.lines
           IN  /\ ret.y_cls[i] = 2
               /\ ScoreSetCount(ret.subject_ids[i]) = 2
               /\ ret.y_reg[i] = TargetOfLine(lines, 2)
               /\ ret.y_reg[i] # TargetOfLine(lines, 1)

(***************************************************************************)
(* A further claim about extract_panas_scores, checked under SpecPanas.    *)
(***************************************************************************)
\* C17: the k-th returned score set comes from the k-th accepted marker line
\* of the file; it has exactly the 26 adjectives of PANAS_ITEMS as its keys,
\* the p-th adjective with the p-th number of the line, whatever numbers
\* follow the 26th
C17_PositionalInFileOrder ==
    (pc = "done" /\ ~ret.raised)
    => LET accepted == SelectSeq(args.quest.lines, LAMBDA line : IsAccepted(line))
           sets == ret.condition_scores
       IN  /\ Len(sets) = Len(accepted)
           /\ \A k \in 1..Len(sets) :
                  /\ DOMAIN sets[k] = {PANAS_ITEMS[p] : p \in 1..Len(PANAS_ITEMS)}
                  /\ Cardinality(DOMAIN sets[k]) = 26
                  /\ \A p \in 1..Len(PANAS_ITEMS) :
                         sets[k][PANAS_ITEMS[p]] = NumericValues(accepted[k])[p]

\* two score sets that differ, the first from a line of more than 26 numbers
C17_Witness ==
    /\ pc = "done"
    /\ ~ret.raised
    /\ Len(ret.condition_scores) = 2
    /\ ret.condition_scores[1] # ret.condition_scores[2]
    /\ Len(NumericValues(SelectSeq(args.quest.lines,
                                   LAMBDA line : IsAccepted(line))[1]))
           > Len(PANAS_ITEMS)

(***************************************************************************)
(* Claims about the audio notebook, checked under SpecAudio.               *)
(***************************************************************************)
\* the input files: the .mp3 names of the listing, in the listing's order
InputNames == SelectSeq(args.listing, LAMBDA f : f \in Mp3Names)

IsSuccessRecord(r) ==
    DOMAIN r = {"file", "embedding", "tags"} /\ r.embedding = EMBED_SIZE

IsErrorRecord(r) == DOMAIN r = {"file", "error"}

\* C11: when the map has returned, the result list and the JSON dump of it
\* have one entry per input file, each a success record {file, embedding,
\* tags} or an error record {file, error}, and every input file's name is
\* carried by exactly one entry
C11_OneRecordPerFile ==
    pc = "done" =>
        LET results == globals.results
        IN  /\ Len(results) = Len(InputNames)
            /\ globals.audio_features_json = results
            /\ \A k \in 1..Len(results) :
                   IsSuccessRecord(results[k]) \/ IsErrorRecord(results[k])
            /\ \A j \in 1..Len(InputNames) :
                   Cardinality({k \in 1..Len(results) :
                                    results[k].file = InputNames[j]}) = 1

\* three files, of which one was processed and one failed in the try block
C11_Witness ==
    /\ pc = "done"
    /\ Len(globals.results) = 3
    /\ \E k \in 1..3 : IsSuccessRecord(globals.results[k])
    /\ \E k \in 1..3 : IsErrorRecord(globals.results[k])

\* C12: a failure at any step of process_audio, the GPU selection included,
\* ends in an error record for that file and never in an exception out of
\* pool.map: the map never raises, and when it has returned every file for
\* which a step fails has an error record
C12_FailureNeverAborts ==
    /\ pc # "raised"
    /\ pc = "done" =>
           \A k \in 1..Len(InputNames) :
               \/ /\ args.machine.failing[InputNames[k]] = "none"
                  /\ (k - 1) % 2 < args.machine.device_count
               \/ \E j \in 1..Len(globals.results) :
                      /\ IsErrorRecord(globals.results[j])
                      /\ globals.results[j].file = InputNames[k]

\* C18: whichever worker takes which file and in whatever order the workers
\* finish, a slot i of the result list that is filled holds the record of the
\* i-th input file, a file i that has been processed was processed on GPU
\* (i - 1) mod 2 (files counted from 1), and the list the map returns is the
\* list of the slots
C18_InputOrderAndGpu ==
    pc \in {"map", "done", "raised"}
    => /\ Len(pool.value) = Len(InputNames)
       /\ \A i \in 1..Len(InputNames) :
              /\ pool.value[i] # <<>> => pool.value[i][1].file = InputNames[i]
              /\ pool.device[i] # <<>> => pool.device[i][1] = (i - 1) % 2
              /\ pool.value[i] # <<>> => pool.device[i] # <<>>
       /\ pc = "done"
          => /\ Len(globals.results) = Len(InputNames)
             /\ \A i \in 1..Len(InputNames) :
                    /\ globals.results[i].file = InputNames[i]
                    /\ globals.results[i] = pool.value[i][1]

\* the record of the second file arrived before that of the first, the second
\* file was processed on GPU 1, and the third is still waiting
C18_Witness ==
    /\ pc = "map"
    /\ Len(InputNames) = 3
    /\ pool.value[1] = <<>>
    /\ pool.value[2] # <<>>
    /\ pool.device[2] = <<1>>
    /\ pool.taskqueue = <<2>>

(***************************************************************************)
(* Claims about load_and_downsample followed by create_windows, checked    *)
(* under SpecExample.                                                      *)
(***************************************************************************)
\* the returned window that starts at row i of the resampled recording
ExampleEmittedAt(i) ==
    \E j \in 1..Len(ret.windows) :
        ret.windows[j] = [k \in 1..args.window_size |-> i + k - 1]

\* C13: a 7000-sample label series at 700 Hz, 1 in its first half and 2 in its
\* second, gives 40 rows at 4 Hz; with W = 8 and S = 4 no candidate is dropped,
\* every candidate start 0, 4, ..., 32 yields a window, and each window has the
\* majority label of its rows, the tie of 4 against 4 going to 1
C13_EndToEndExample ==
    (/\ pc = "done"
     /\ args.data.label.len = 7000
     /\ args.data.label.resampled = <<Run(1, 20), Run(2, 20)>>
     /\ args.window_size = 8
     /\ args.stride = 4)
    => /\ globals.X_raw.rows = 40
       /\ Len(globals.y_raw) = 40
       /\ ~ret.raised
       /\ \A i \in {0, 4, 8, 12, 16, 20, 24, 28, 32} : ExampleEmittedAt(i)
       /\ Len(ret.windows) = 9
       /\ ret.labels = <<1, 1, 1, 1, 1, 2, 2, 2, 2>>

(***************************************************************************)
(* Claims about the cells that split the windows, checked under SpecSplit. *)
(***************************************************************************)
\* C19: train_subjects and val_subjects share no subject, and no subject has
\* windows on both sides: not in the classification task (the windows of
\* label 1 to 4), not in the regression task (all the windows, split by the
\* same two subject lists)
C19_SplitIsSubjectDisjoint ==
    pc \in {"split", "cls", "rescaled"}
    => /\ py_set(globals.train_subjects) \cap py_set(globals.val_subjects) = {}
       /\ \A i, j \in 1..Len(globals.subject_ids) :
              (globals.train_mask[i] /\ globals.val_mask[j])
              => globals.subject_ids[i] # globals.subject_ids[j]
       /\ pc \in {"cls", "rescaled"}
          => \A i \in 1..Len(globals.X_train) :
                 \A j \in 1..Len(globals.X_val) :
                     globals.X_train[i].subject # globals.X_val[j].subject

\* the regression split of subjects on both sides, with a window of a label
\* outside 1..4 on the train side and a subject that is on neither side
C19_Witness ==
    /\ pc = "rescaled"
    /\ globals.X_val # <<>>
    /\ \E i \in 1..Len(globals.X_train) :
           \E k \in 1..Len(ret.X) :
               ret.X[k] = globals.X_train[i] /\ ret.y_cls[k] > 4
    /\ Len(globals.X_train) + Len(globals.X_val) < Len(globals.X_reg)

====
